---- MODULE Spec2Model ----
(***************************************************************************)
(* Model of the PNG chunk codec of pngme (src/src/chunk.rs): Chunk::new,   *)
(* Chunk::as_bytes, Chunk::crc_checksum, TryFrom<&[u8]> for Chunk,          *)
(* Chunk::data_as_string and Display for Chunk.                            *)
(*                                                                         *)
(* Number representation.  TLC integers are 32-bit signed, so a u32 is     *)
(* held as two 16-bit limbs <<hi, lo>> and a usize (64-bit target) as four *)
(* 16-bit limbs, most significant first.  All arithmetic on them keeps the *)
(* width of the Rust type.                                                 *)
(***************************************************************************)
EXTENDS Integers, Sequences, FiniteSets, TLC

(***************************************************************************)
(* Bounds of the model.                                                    *)
(***************************************************************************)
\* longest data vector handed to Chunk::new with its content modelled
MaxDataLen == 2
\* most bytes appended after an encoded chunk
MaxTrailing == 2
\* largest value of limb 2 (bits 32..47) of a modelled Vec length
MaxHighLimb == 1

(***************************************************************************)
(* Fixed-width integers.                                                   *)
(***************************************************************************)
Limb == 65536

\* bit-wise exclusive or, for operands below 2^16
XorBit(a, b, w) == w * (((a \div w) + (b \div w)) % 2)
Xor8(a, b) ==
    XorBit(a, b, 1) + XorBit(a, b, 2) + XorBit(a, b, 4) + XorBit(a, b, 8)
    + XorBit(a, b, 16) + XorBit(a, b, 32) + XorBit(a, b, 64)
    + XorBit(a, b, 128)
Xor(a, b) == Xor8(a % 256, b % 256) + 256 * Xor8(a \div 256, b \div 256)

\* u32::to_be_bytes
to_be_bytes(u) ==
    << u[1] \div 256, u[1] % 256, u[2] \div 256, u[2] % 256 >>

\* u32::from_be_bytes on a 4-byte slice
from_be_bytes(b) ==
    << b[1] * 256 + b[2], b[3] * 256 + b[4] >>

\* `x as usize` for a u32 x (zero extension)
U32AsUsize(u) == << 0, 0, u[1], u[2] >>

\* `n as u32` for a usize n: keeps the low 32 bits
UsizeAsU32(n) == << n[3], n[4] >>

\* the usize of a small natural (a length of a modelled sequence)
UsizeOf(k) == << 0, 0, k \div Limb, k % Limb >>

\* usize addition, wrapping at 64 bits
UsizeAdd(a, b) ==
    LET s4 == a[4] + b[4]
        s3 == a[3] + b[3] + s4 \div Limb
        s2 == a[2] + b[2] + s3 \div Limb
        s1 == a[1] + b[1] + s2 \div Limb
    IN  << s1 % Limb, s2 % Limb, s3 % Limb, s4 % Limb >>

\* a < b on usize
UsizeLt(a, b) ==
    \/ a[1] < b[1]
    \/ a[1] = b[1] /\ a[2] < b[2]
    \/ a[1] = b[1] /\ a[2] = b[2] /\ a[3] < b[3]
    \/ a[1] = b[1] /\ a[2] = b[2] /\ a[3] = b[3] /\ a[4] < b[4]

(***************************************************************************)
(* CRC-32/ISO-HDLC: reflected polynomial 0xEDB88320, initial value and     *)
(* final xor 0xFFFFFFFF.  The register is a u32 <<hi, lo>>.                *)
(***************************************************************************)
PolyHi == 60856
PolyLo == 33568

Shr1(r) == << r[1] \div 2, (r[2] \div 2) + (r[1] % 2) * 32768 >>

RECURSIVE CrcBits(_, _)
CrcBits(r, n) ==
    IF n = 0 THEN r
    ELSE CrcBits(IF r[2] % 2 = 1
                 THEN << Xor(Shr1(r)[1], PolyHi), Xor(Shr1(r)[2], PolyLo) >>
                 ELSE Shr1(r),
                 n - 1)

\* the 256-entry table of the table-driven implementation
CrcTable == [ b \in 0..255 |-> CrcBits(<< 0, b >>, 8) ]

\* one byte: crc = table[(crc ^ byte) & 0xFF] ^ (crc >> 8)
CrcByte(r, byte) ==
    LET e == CrcTable[Xor(r[2] % 256, byte)]
    IN  << Xor(r[1] \div 256, e[1]),
           Xor((r[1] % 256) * 256 + r[2] \div 256, e[2]) >>

RECURSIVE CrcUpdate(_, _, _)
CrcUpdate(r, bytes, i) ==
    IF i > Len(bytes) THEN r
    ELSE CrcUpdate(CrcByte(r, bytes[i]), bytes, i + 1)

\* Crc::<u32>::new(&CRC_32_ISO_HDLC).checksum(bytes)
CRC32(bytes) ==
    LET r == CrcUpdate(<< 65535, 65535 >>, bytes, 1)
    IN  << Xor(r[1], 65535), Xor(r[2], 65535) >>

(***************************************************************************)
(* Constants of impl Chunk.                                                *)
(***************************************************************************)
LENGTH_BYTES_LEN == 4
CHUNK_TYPE_BYTES_LEN == 4
CRC_LEN == 4
METADATA_BYTES_LEN == LENGTH_BYTES_LEN + CHUNK_TYPE_BYTES_LEN + CRC_LEN

(***************************************************************************)
(* ChunkType, the tag collaborator (chunk_type.rs).  A ChunkType is its    *)
(* four bytes; construction from four bytes validates them.                *)
(***************************************************************************)
IsAsciiAlphabetic(b) == (b >= 65 /\ b <= 90) \/ (b >= 97 /\ b <= 122)

\* ChunkType::try_from([u8; 4]) succeeds
ChunkTypeValid(t) == \A i \in 1..4 : IsAsciiAlphabetic(t[i])

\* ChunkType::bytes
ChunkTypeBytes(t) == t

(***************************************************************************)
(* Chunk.                                                                  *)
(***************************************************************************)
\* Chunk::crc_checksum
CrcSkipTag(chunk_type, data) == CRC32(data)
crc_checksum(chunk_type, data) == CRC32(ChunkTypeBytes(chunk_type) \o data)

\* Chunk::new
Chunk_new(chunk_type, data) ==
    [ length     |-> UsizeAsU32(UsizeOf(Len(data))),
      chunk_type |-> chunk_type,
      data       |-> data,
      crc        |-> crc_checksum(chunk_type, data) ]

\* Chunk::as_bytes
as_bytes(c) ==
    to_be_bytes(c.length) \o ChunkTypeBytes(c.chunk_type) \o c.data
        \o to_be_bytes(c.crc)

\* the values a Result<Chunk> of try_from, or the call itself, can take
Ok(c) == [ kind |-> "Ok", chunk |-> c ]
ErrInvalidChunkLength == [ kind |-> "Err", error |-> "InvalidChunkLength" ]
ErrInvalidCrc(a, b) == [ kind |-> "Err", error |-> "InvalidCrc", crc |-> a, checksum |-> b ]
Panic(why) == [ kind |-> "Panic", why |-> why ]
NoResult == [ kind |-> "None" ]

\* usize -> natural; used only on values already known to be at most Len(value)
UsizeToNat(n) == n[3] * Limb + n[4]

\* a range index value[a..b] is in bounds (otherwise the indexing panics)
SliceInBounds(value, a, b) ==
    /\ ~UsizeLt(b, a)
    /\ ~UsizeLt(UsizeOf(Len(value)), b)

\* value[a..b] for an in-bounds range
Slice(value, a, b) == SubSeq(value, UsizeToNat(a) + 1, UsizeToNat(b))

\* length + Self::METADATA_BYTES_LEN, the size the declared length requires
TotalSizeOffByFour(length) == UsizeAdd(length, UsizeOf(METADATA_BYTES_LEN - CRC_LEN))
TotalSize(length) == UsizeAdd(length, UsizeOf(METADATA_BYTES_LEN))

\* the bounds 8 + length and length + 12 of the data and crc slices
DataEnd(length) == UsizeAdd(UsizeOf(8), length)
CrcEnd(length) == UsizeAdd(length, UsizeOf(12))

\* u32::from_be_bytes(value[8+length..length+12]), the stored crc
ReadCrcFromEnd(value, length) ==
    from_be_bytes(SubSeq(value, Len(value) - 3, Len(value)))
ReadCrc(value, length) ==
    from_be_bytes(Slice(value, DataEnd(length), CrcEnd(length)))

\* the comparison of the stored crc with the recomputed one, and its error
CrcCheckRecomputed(crc, checksum, c) == Ok([ c EXCEPT !.crc = checksum ])
CrcCheckSwapped(crc, checksum, c) ==
    IF crc # checksum THEN ErrInvalidCrc(checksum, crc) ELSE Ok(c)
CrcCheck(crc, checksum, c) ==
    IF crc # checksum THEN ErrInvalidCrc(crc, checksum) ELSE Ok(c)

\* <Chunk as TryFrom<&[u8]>>::try_from
try_from(value) ==
    IF Len(value) < METADATA_BYTES_LEN THEN ErrInvalidChunkLength
    ELSE
      LET length == U32AsUsize(from_be_bytes(SubSeq(value, 1, 4)))
      IN
      IF UsizeLt(UsizeOf(Len(value)), TotalSize(length))
      THEN ErrInvalidChunkLength
      ELSE
        LET bytes4 == SubSeq(value, 5, 8)
        IN
        IF ~ChunkTypeValid(bytes4)
        THEN Panic("unwrap on the ChunkType error")
        ELSE IF ~SliceInBounds(value, UsizeOf(8), DataEnd(length))
        THEN Panic("data range out of bounds")
        ELSE IF ~SliceInBounds(value, DataEnd(length), CrcEnd(length))
        THEN Panic("crc range out of bounds")
        ELSE
          LET data     == Slice(value, UsizeOf(8), DataEnd(length))
              crc      == ReadCrc(value, length)
              checksum == crc_checksum(bytes4, data)
          IN  CrcCheck(crc, checksum,
                       [ length     |-> UsizeAsU32(length),
                         chunk_type |-> bytes4,
                         data       |-> data,
                         crc        |-> crc ])

(***************************************************************************)
(* Text rendering.                                                         *)
(***************************************************************************)
IsCont(b) == b >= 128 /\ b <= 191

RECURSIVE Utf8Valid(_)
\* the validation String::from_utf8 performs
Utf8Valid(b) ==
    IF b = << >> THEN TRUE
    ELSE
      LET f == b[1]
          n == Len(b)
      IN
      IF f < 128 THEN Utf8Valid(Tail(b))
      ELSE IF f >= 194 /\ f <= 223
      THEN n >= 2 /\ IsCont(b[2]) /\ Utf8Valid(SubSeq(b, 3, n))
      ELSE IF f >= 224 /\ f <= 239
      THEN /\ n >= 3
           /\ IsCont(b[2])
           /\ (f = 224 => b[2] >= 160)
           /\ (f = 237 => b[2] <= 159)
           /\ IsCont(b[3])
           /\ Utf8Valid(SubSeq(b, 4, n))
      ELSE IF f >= 240 /\ f <= 244
      THEN /\ n >= 4
           /\ IsCont(b[2])
           /\ (f = 240 => b[2] >= 144)
           /\ (f = 244 => b[2] <= 143)
           /\ IsCont(b[3])
           /\ IsCont(b[4])
           /\ Utf8Valid(SubSeq(b, 5, n))
      ELSE FALSE

TextOk(s) == [ kind |-> "Ok", text |-> s ]
ErrFromUtf8 == [ kind |-> "Err", error |-> "FromUtf8Error" ]
NoText == [ kind |-> "None" ]

\* Chunk::data_as_string
data_as_string(c) ==
    IF Utf8Valid(c.data) THEN TextOk(c.data) ELSE ErrFromUtf8

\* <Chunk as Display>::fmt
fmt(c) ==
    LET data == data_as_string(c)
    IN  IF data.kind # "Ok"
        THEN Panic("unwrap on the FromUtf8Error")
        ELSE TextOk(<< "Chunk", c.length, c.chunk_type, data.text, c.crc >>)

(***************************************************************************)
(* State.  One Chunk under construction and rendering, one byte buffer on  *)
(* its way to try_from, and the outcomes of the calls made so far.         *)
(***************************************************************************)
VARIABLES
    chunk,      \* << >> or <<c>>: the Chunk built by Chunk::new (or unwrapped)
    value,      \* the byte buffer handed to try_from
    edit,       \* how value was obtained from as_bytes of chunk
    result,     \* outcome of try_from(value), NoResult before the call
    text,       \* outcome of data_as_string / fmt on chunk, NoText before
    dataLen,    \* sized run: data.len() of the Vec handed to Chunk::new
    sized,      \* sized run: lengths of the chunk, its encoding and decoding
    phase       \* sized run: the last operation performed

vars == << chunk, value, edit, result, text, dataLen, sized, phase >>
codecVars == << chunk, value, edit, result, text >>
sizedVars == << dataLen, sized, phase >>

\* inputs of the model
ChunkTypes == { << 82, 117, 83, 116 >>, << 98, 76, 79, 98 >> }
OtherTags == { << 114, 117, 83, 116 >>, << 82, 117, 83, 49 >> }
DataBytes == { 65, 195, 169 }
TrailBytes == { 0, 255 }
LengthSamples ==
    { << 0, 0 >>, << 0, 1 >>, << 0, 3 >>, << 32768, 0 >>,
      << 65535, 65524 >>, << 65535, 65535 >> }

RECURSIVE SeqsUpTo(_, _)
SeqsUpTo(S, n) ==
    IF n = 0 THEN { << >> }
    ELSE LET shorter == SeqsUpTo(S, n - 1)
         IN  shorter \cup { Append(q, x) : q \in shorter, x \in S }

DataVecs == SeqsUpTo(DataBytes, MaxDataLen)

NoEdit(stage) ==
    [ stage |-> stage, flip |-> << >>, relen |-> FALSE, retag |-> FALSE,
      extra |-> 0, cut |-> FALSE ]

\* the sized run before Chunk::new
NoSized ==
    [ length |-> << 0, 0 >>, header |-> << 0, 0, 0, 0 >>,
      bytesLen |-> << 0, 0, 0, 0 >>, outcome |-> "None",
      decodedLength |-> << 0, 0 >>, decodedDataLen |-> << 0, 0, 0, 0 >> ]

Init ==
    /\ chunk = << >>
    /\ value = << >>
    /\ edit = NoEdit("empty")
    /\ result = NoResult
    /\ text = NoText
    /\ dataLen = << 0, 0, 0, 0 >>
    /\ sized = NoSized
    /\ phase = "idle"

\* let chunk = Chunk::new(chunk_type, data)
New(chunk_type, data) ==
    /\ chunk = << >>
    /\ phase = "idle"
    /\ chunk' = << Chunk_new(chunk_type, data) >>
    /\ value' = << >>
    /\ edit' = NoEdit("empty")
    /\ result' = NoResult
    /\ text' = NoText
    /\ UNCHANGED sizedVars

\* let value = chunk.as_bytes()
AsBytes ==
    /\ chunk # << >>
    /\ edit.stage = "empty"
    /\ text = NoText
    /\ value' = as_bytes(chunk[1])
    /\ edit' = NoEdit("encoded")
    /\ UNCHANGED << chunk, result, text >>
    /\ UNCHANGED sizedVars

Pristine == edit = NoEdit("encoded") /\ result = NoResult

\* bit k of byte i of the encoded buffer is flipped in transit
FlipBit(i, k) ==
    /\ Pristine
    /\ i \in 1..Len(value)
    /\ value' = [ value EXCEPT ![i] = Xor(@, 2 ^ k) ]
    /\ edit' = [ edit EXCEPT !.flip = << i, k >> ]
    /\ UNCHANGED << chunk, result, text >>
    /\ UNCHANGED sizedVars

\* the length field of the buffer is overwritten
SetLength(l) ==
    /\ edit.stage = "encoded" /\ result = NoResult
    /\ edit.flip = << >> /\ ~edit.relen /\ edit.extra = 0 /\ ~edit.cut
    /\ value' = to_be_bytes(l) \o SubSeq(value, 5, Len(value))
    /\ edit' = [ edit EXCEPT !.relen = TRUE ]
    /\ UNCHANGED << chunk, result, text >>
    /\ UNCHANGED sizedVars

\* the tag bytes of the buffer are overwritten
SetTag(t) ==
    /\ edit.stage = "encoded" /\ result = NoResult
    /\ edit.flip = << >> /\ ~edit.retag /\ edit.extra = 0 /\ ~edit.cut
    /\ value' = SubSeq(value, 1, 4) \o t \o SubSeq(value, 9, Len(value))
    /\ edit' = [ edit EXCEPT !.retag = TRUE ]
    /\ UNCHANGED << chunk, result, text >>
    /\ UNCHANGED sizedVars

\* a byte of a following record is appended to the buffer
AppendByte(b) ==
    /\ edit.stage = "encoded" /\ result = NoResult
    /\ edit.flip = << >> /\ ~edit.relen /\ ~edit.retag /\ ~edit.cut
    /\ edit.extra < MaxTrailing
    /\ value' = Append(value, b)
    /\ edit' = [ edit EXCEPT !.extra = @ + 1 ]
    /\ UNCHANGED << chunk, result, text >>
    /\ UNCHANGED sizedVars

\* the buffer is cut to its first n bytes
Truncate(n) ==
    /\ edit.stage = "encoded" /\ result = NoResult
    /\ edit.flip = << >> /\ edit.extra = 0 /\ ~edit.cut
    /\ n < Len(value)
    /\ value' = SubSeq(value, 1, n)
    /\ edit' = [ edit EXCEPT !.cut = TRUE ]
    /\ UNCHANGED << chunk, result, text >>
    /\ UNCHANGED sizedVars

\* let result = Chunk::try_from(value)
TryFrom ==
    /\ edit.stage = "encoded"
    /\ result = NoResult
    /\ result' = try_from(value)
    /\ UNCHANGED << chunk, value, edit, text >>
    /\ UNCHANGED sizedVars

\* let chunk = result.unwrap(), as the tests do
Unwrap ==
    /\ result.kind = "Ok"
    /\ chunk' = << result.chunk >>
    /\ value' = << >>
    /\ edit' = NoEdit("empty")
    /\ result' = NoResult
    /\ text' = NoText
    /\ UNCHANGED sizedVars

\* let text = chunk.data_as_string()
DataAsString ==
    /\ chunk # << >>
    /\ edit.stage = "empty"
    /\ text = NoText
    /\ text' = data_as_string(chunk[1])
    /\ edit' = [ edit EXCEPT !.stage = "data_as_string" ]
    /\ UNCHANGED << chunk, value, result >>
    /\ UNCHANGED sizedVars

\* let text = format!("{}", chunk)
Display ==
    /\ chunk # << >>
    /\ edit.stage = "empty"
    /\ text = NoText
    /\ text' = fmt(chunk[1])
    /\ edit' = [ edit EXCEPT !.stage = "fmt" ]
    /\ UNCHANGED << chunk, value, result >>
    /\ UNCHANGED sizedVars

\* the chunk, the buffer and the results go out of scope
Drop ==
    /\ result # NoResult \/ text # NoText
    /\ chunk' = << >>
    /\ value' = << >>
    /\ edit' = NoEdit("empty")
    /\ result' = NoResult
    /\ text' = NoText
    /\ UNCHANGED sizedVars

Next ==
    \/ \E t \in ChunkTypes, d \in DataVecs : New(t, d)
    \/ AsBytes
    \/ \E i \in 1..(METADATA_BYTES_LEN + MaxDataLen), k \in 0..7 : FlipBit(i, k)
    \/ \E l \in LengthSamples : SetLength(l)
    \/ \E t \in OtherTags : SetTag(t)
    \/ \E b \in TrailBytes : AppendByte(b)
    \/ \E n \in 0..(METADATA_BYTES_LEN + MaxDataLen) : Truncate(n)
    \/ TryFrom
    \/ Unwrap
    \/ DataAsString
    \/ Display
    \/ Drop

Spec == Init /\ [][Next]_vars

(***************************************************************************)
(* Sized run.  The same operations on a data Vec of any length a 64-bit    *)
(* target allows, followed through its sizes alone: data.len(), the length *)
(* field, the size of the encoding, and what try_from slices out of it.    *)
(* The bytes themselves are not represented.                               *)
(***************************************************************************)
VecLens ==
    { << 0, h, m, l >> : h \in 0..MaxHighLimb, m \in { 0, 1, 65535 },
                         l \in { 0, 1, 2, 3, 65524, 65535 } }

\* Chunk::new: let length = data.len() as u32
NewSized(n) ==
    /\ phase = "idle"
    /\ chunk = << >>
    /\ dataLen' = n
    /\ sized' = [ NoSized EXCEPT !.length = UsizeAsU32(n) ]
    /\ phase' = "new"
    /\ UNCHANGED codecVars

\* Chunk::as_bytes: 4 length bytes, 4 tag bytes, the data, 4 crc bytes
AsBytesSized ==
    /\ phase = "new"
    /\ sized' = [ sized EXCEPT
                    !.header = to_be_bytes(sized.length),
                    !.bytesLen = UsizeAdd(UsizeAdd(UsizeAdd(UsizeOf(4), UsizeOf(4)),
                                                   dataLen), UsizeOf(4)) ]
    /\ phase' = "as_bytes"
    /\ UNCHANGED dataLen
    /\ UNCHANGED codecVars

\* try_from on that encoding.  The crc slice value[8+length..length+12] is
\* the encoded crc field exactly when 8 + length = 8 + data.len(); then it
\* equals the recomputed checksum.  Otherwise the slice holds data bytes and
\* the comparison can go either way.
TryFromSized(crcEqual) ==
    /\ phase = "as_bytes"
    /\ LET length == U32AsUsize(from_be_bytes(sized.header))
       IN  IF \/ UsizeLt(sized.bytesLen, UsizeOf(METADATA_BYTES_LEN))
              \/ UsizeLt(sized.bytesLen, TotalSize(length))
           THEN sized' = [ sized EXCEPT !.outcome = "InvalidChunkLength" ]
           ELSE /\ (DataEnd(length) = UsizeAdd(UsizeOf(8), dataLen)) => crcEqual
                /\ sized' = [ sized EXCEPT
                                !.outcome = IF crcEqual THEN "Ok" ELSE "InvalidCrc",
                                !.decodedLength = UsizeAsU32(length),
                                !.decodedDataLen = length ]
    /\ phase' = "try_from"
    /\ UNCHANGED dataLen
    /\ UNCHANGED codecVars

\* the chunk and its encoding go out of scope
DropSized ==
    /\ phase = "try_from"
    /\ dataLen' = << 0, 0, 0, 0 >>
    /\ sized' = NoSized
    /\ phase' = "idle"
    /\ UNCHANGED codecVars

NextSized ==
    \/ \E n \in VecLens : NewSized(n)
    \/ AsBytesSized
    \/ \E crcEqual \in BOOLEAN : TryFromSized(crcEqual)
    \/ DropSized

SpecSized == Init /\ [][NextSized]_vars

(***************************************************************************)
(* Properties.  The layout of a buffer is read here with plain arithmetic  *)
(* on its bytes, independently of the operators of try_from.               *)
(***************************************************************************)
Decoded == result # NoResult

\* the big-endian u32 at byte offset off, as <<hi, lo>>
FieldAt(b, off) ==
    << b[off + 1] * 256 + b[off + 2], b[off + 3] * 256 + b[off + 4] >>

\* the declared length exceeds what a buffer of at least 12 bytes holds
DeclaredTooLong(b) ==
    \/ FieldAt(b, 0)[1] > 0
    \/ FieldAt(b, 0)[2] + 12 > Len(b)

\* the buffer passes both size checks
SizeOk(b) == Len(b) >= 12 /\ ~DeclaredTooLong(b)

\* fields of a buffer that passes both size checks
DeclaredLen(b) == FieldAt(b, 0)[2]
TagOf(b) == SubSeq(b, 5, 8)
DataOf(b) == SubSeq(b, 9, 8 + DeclaredLen(b))
StoredCrc(b) == FieldAt(b, 8 + DeclaredLen(b))

\* C1: in the sized run, decoding the encoding of Chunk::new(tag, data)
\* succeeds and returns the length field and the data size of the chunk
\* that was encoded.
C1_RoundTrip ==
    phase = "try_from" =>
        /\ sized.outcome = "Ok"
        /\ sized.decodedLength = sized.length
        /\ sized.decodedDataLen = dataLen

\* C2: a buffer shorter than 12 bytes, or one of at least 12 bytes whose
\* declared length L has Len < L + 12, is rejected with InvalidChunkLength.
C2_TruncationRejected ==
    (Decoded /\ ~SizeOk(value)) => result = ErrInvalidChunkLength

\* C2 witness: a 12-byte-or-longer buffer declaring 0xFFFFFFFF bytes under
\* an invalid tag was rejected with InvalidChunkLength.
C2_Witness ==
    /\ Len(value) >= 12
    /\ FieldAt(value, 0) = << 65535, 65535 >>
    /\ ~ChunkTypeValid(TagOf(value))
    /\ result = ErrInvalidChunkLength

\* C3: a buffer that passes both size checks under a valid tag decodes to
\* InvalidCrc(stored, recomputed) when the stored crc differs from
\* CRC32(tag ++ data), and to a Chunk only when they are equal.
C3_CrcVerified ==
    (Decoded /\ SizeOk(value) /\ ChunkTypeValid(TagOf(value))) =>
        LET stored   == StoredCrc(value)
            expected == CRC32(TagOf(value) \o DataOf(value))
        IN  IF stored # expected
            THEN result = ErrInvalidCrc(stored, expected)
            ELSE result.kind = "Ok"

\* C3 witness: a decode ended with InvalidCrc carrying two different values.
C3_Witness ==
    /\ result.kind = "Err"
    /\ result.error = "InvalidCrc"
    /\ result.crc # result.checksum
    /\ result.crc = StoredCrc(value)

\* C4: a buffer that passes both size checks and whose tag bytes are
\* rejected by the tag validation decodes to an error value that is neither
\* InvalidChunkLength nor InvalidCrc.
C4_TagFailurePropagated ==
    (Decoded /\ SizeOk(value) /\ ~ChunkTypeValid(TagOf(value))) =>
        /\ result.kind = "Err"
        /\ result.error \notin { "InvalidChunkLength", "InvalidCrc" }

\* the decode acted on as_bytes(chunk) with one bit of its tag or data flipped
FlippedTagOrData ==
    /\ Decoded
    /\ edit.flip # << >>
    /\ edit.flip[1] >= 5
    /\ edit.flip[1] <= 8 + Len(chunk[1].data)

C6_WireLayout ==
    phase = "as_bytes" =>
        /\ sized.bytesLen = UsizeAdd(UsizeOf(12), U32AsUsize(sized.length))
        /\ U32AsUsize(FieldAt(sized.header, 0)) = dataLen

\* C7: the length of a Chunk built by Chunk::new, or returned by a
\* successful decode, is the byte count of its data.
C7_LengthInvariant ==
    /\ phase = "new" => U32AsUsize(sized.length) = dataLen
    /\ (phase = "try_from" /\ sized.outcome = "Ok") =>
           U32AsUsize(sized.decodedLength) = sized.decodedDataLen

\* C8: when the first 12 + L bytes of a buffer decode to a Chunk, the whole
\* buffer decodes to the same Chunk, whatever follows them.
C8_TrailingIgnored ==
    (Decoded /\ SizeOk(value)) =>
        LET exact == try_from(SubSeq(value, 1, 12 + DeclaredLen(value)))
        IN  exact.kind = "Ok" => result = exact

\* C8 witness: a buffer with bytes after offset 12 + L was decoded to a Chunk.
C8_Witness ==
    /\ Decoded
    /\ edit.extra > 0
    /\ Len(value) > 12 + DeclaredLen(value)
    /\ result.kind = "Ok"
    /\ result.chunk.data = DataOf(value)

\* C9: rendering a Chunk as text, by data_as_string or by Display, yields
\* the text for valid UTF-8 data and the UTF-8 error value otherwise.
C9_TextRenderingFailsAsValue ==
    text # NoText =>
        IF Utf8Valid(chunk[1].data)
        THEN /\ text.kind = "Ok"
             /\ edit.stage = "data_as_string" => text.text = chunk[1].data
        ELSE text = ErrFromUtf8

\* C10: as_bytes of a decoded Chunk is the first 12 + length bytes of the
\* buffer it was decoded from, and the whole buffer when that is its size.
C10_DecodeThenEncode ==
    (Decoded /\ result.kind = "Ok") =>
        LET n == UsizeToNat(U32AsUsize(result.chunk.length))
        IN  /\ 12 + n <= Len(value)
            /\ as_bytes(result.chunk) = SubSeq(value, 1, 12 + n)
            /\ (Len(value) = 12 + n => as_bytes(result.chunk) = value)

\* C10 witness: a buffer holding a non-empty chunk and a trailing byte was
\* decoded to a Chunk.
C10_Witness ==
    /\ Decoded
    /\ result.kind = "Ok"
    /\ result.chunk.data # << >>
    /\ Len(value) > 12 + Len(result.chunk.data)

(***************************************************************************)
(* Supporting facts of the codec run, where every data Vec is shorter than *)
(* 2^32 bytes and its bytes are represented.                               *)
(***************************************************************************)
\* an unmodified encoding decodes to the chunk it was made from
RoundTripSmall ==
    (Decoded /\ edit = NoEdit("encoded")) => result = Ok(chunk[1])

\* an unmodified encoding has the layout length, tag, data, crc
WireLayoutSmall ==
    edit = NoEdit("encoded") =>
        /\ Len(value) = 12 + Len(chunk[1].data)
        /\ FieldAt(value, 0) = << 0, Len(chunk[1].data) >>
        /\ TagOf(value) = chunk[1].chunk_type
        /\ DataOf(value) = chunk[1].data
        /\ StoredCrc(value) = CRC32(chunk[1].chunk_type \o chunk[1].data)

\* the length field of a chunk is the size of its data
LengthSmall ==
    /\ chunk # << >> => chunk[1].length = << 0, Len(chunk[1].data) >>
    /\ result.kind = "Ok" =>
           result.chunk.length = << 0, Len(result.chunk.data) >>
====
